---- MODULE Spec2Model ----
(***************************************************************************)
(* Pattern parsing (lib/Parse/ParsePattern.cpp) as functions over a token  *)
(* cursor.  A parser state P is the record                                 *)
(*   toks  : the token stream (token texts), tok::eof after its end        *)
(*   pos   : index of the current token Tok                                *)
(*   diags : the diagnostics emitted so far, each [loc, kind]              *)
(*   next  : the next free node of the AST arena (node identity)           *)
(*   trap  : "none", or the assertion / llvm_unreachable that was hit      *)
(* Every parse routine takes a P and returns a record holding its result   *)
(* and the P it leaves behind.                                             *)
(***************************************************************************)
EXTENDS Integers, Sequences, FiniteSets, TLC

VARIABLES toks, entry, pc, result

vars == <<toks, entry, pc, result>>

\* ---------------------------------------------------------------- bounds
\* Longest token stream handed to each entry point, and deepest nesting of
\* parentheses in it.
MaxLenElt == 6
MaxLenTuple == 8
MaxLenArgs == 8
MaxLenSel == 11
MaxDepth == 2
MaxDepthSel == 1

\* ---------------------------------------------------------------- tokens
Identifiers == {"_", "a", "b"}
Punctuation == {"(", ")", ",", ":", "=", "...", "->"}
\* One keyword stands for the IDENTIFIER_KEYWORD tokens of Tokens.def.
Keywords == {"kw"}
Tokens == Identifiers \cup Punctuation \cup Keywords
\* The tokens of well-formed selector clauses without default values.
SelectorTokens == Identifiers \cup {"(", ")", ":", "..."}

Kind(t) ==
  CASE t \in Identifiers -> "identifier"
    [] t = "(" -> "l_paren"
    [] t = ")" -> "r_paren"
    [] t = "," -> "comma"
    [] t = ":" -> "colon"
    [] t = "=" -> "equal"
    [] t = "..." -> "ellipsis"
    [] t = "->" -> "arrow"
    [] t \in Keywords -> "kw"
    [] OTHER -> "eof"

\* ---------------------------------------------------------------- cursor
Null == [kind |-> "Null"]

Parser(ts) == [toks |-> ts, pos |-> 1, diags |-> <<>>, next |-> 1, trap |-> "none"]

Text(P) == IF P.pos <= Len(P.toks) THEN P.toks[P.pos] ELSE ""

Tok(P) == Kind(Text(P))

consumeToken(P) ==
  IF P.pos <= Len(P.toks) THEN [P EXCEPT !.pos = @ + 1] ELSE P

RECURSIVE skipUntil(_, _)
skipUntil(P, k) ==
  IF Tok(P) = "eof" \/ Tok(P) = k THEN P ELSE skipUntil(consumeToken(P), k)

diagnose(P, loc, kind) ==
  [P EXCEPT !.diags = Append(@, [loc |-> loc, kind |-> kind])]

alloc(P) == [P EXCEPT !.next = @ + 1]

\* ------------------------------------------------- external sub-parsers
parseTypeAnnotation(P) ==
  IF Tok(P) = "identifier"
  THEN [fail |-> FALSE,
        type |-> [kind |-> "Type", name |-> Text(P), slice |-> FALSE, loc |-> P.pos],
        P |-> consumeToken(P)]
  ELSE [fail |-> TRUE, type |-> Null, P |-> diagnose(P, P.pos, "expected_type")]

parseType(P) == parseTypeAnnotation(P)

parseExpr(P, message) ==
  IF Tok(P) = "identifier"
  THEN [ok |-> TRUE,
        expr |-> [kind |-> "Expr", text |-> Text(P), loc |-> P.pos],
        P |-> consumeToken(P)]
  ELSE [ok |-> FALSE, expr |-> Null, P |-> diagnose(P, P.pos, message)]

\* ---------------------------------------------------------------- AST
AnyPattern(id, loc) == [kind |-> "Any", id |-> id, loc |-> loc]

VarDecl(id, loc, ident) == [kind |-> "VarDecl", id |-> id, loc |-> loc, name |-> ident]

NamedPattern(id, var) == [kind |-> "Named", id |-> id, decl |-> var]

TypedPattern(id, sub, type) == [kind |-> "Typed", id |-> id, sub |-> sub, type |-> type]

ParenPattern(id, lp, sub, rp) ==
  [kind |-> "Paren", id |-> id, lp |-> lp, sub |-> sub, rp |-> rp]

TuplePattern(id, lp, elts, rp) ==
  [kind |-> "Tuple", id |-> id, lp |-> lp, elts |-> elts, rp |-> rp]

TuplePatternElt(pattern, init, varargBaseType) ==
  [pattern |-> pattern, init |-> init, varargBaseType |-> varargBaseType]

isVararg(elt) == elt.varargBaseType # Null

RECURSIVE getBoundName(_)
getBoundName(p) ==
  CASE p.kind = "Named" -> p.decl.name
    [] p.kind \in {"Typed", "Paren"} -> getBoundName(p.sub)
    [] OTHER -> ""

RECURSIVE getLoc(_)
getLoc(p) ==
  CASE p.kind = "Any" -> p.loc
    [] p.kind = "Named" -> p.decl.loc
    [] p.kind = "Typed" -> getLoc(p.sub)
    [] OTHER -> p.lp

revertToNonVariadic(elt) ==
  [elt EXCEPT !.pattern.type = elt.varargBaseType, !.varargBaseType = Null]

ArraySliceType(ty) == [ty EXCEPT !.slice = TRUE]

\* ------------------------------------------------------------- patterns
parsePatternIdentifier(P) ==
  LET loc == P.pos
      text == Text(P)
  IN IF Tok(P) = "identifier"
     THEN IF text = "_"
          THEN [ok |-> TRUE, pat |-> AnyPattern(P.next, loc),
                P |-> alloc(consumeToken(P))]
          ELSE [ok |-> TRUE,
                pat |-> NamedPattern(P.next + 1, VarDecl(P.next, loc, text)),
                P |-> alloc(alloc(consumeToken(P)))]
     ELSE [ok |-> FALSE, pat |-> Null, P |-> P]

(* Each routine is split at its calls: the part of the routine after a    *)
(* call is an operator of its own that takes the call's result.           *)
RECURSIVE parsePattern(_)
RECURSIVE parsePatternAtom(_)
RECURSIVE parsePatternTupleElement(_, _)
RECURSIVE parsePatternTupleCallback(_, _, _)
RECURSIVE parseList(_, _, _)
RECURSIVE parsePatternTuple(_, _)

NullPattern(P) == [ok |-> FALSE, pat |-> Null, P |-> P]

\* parsePattern after the type annotation was parsed.
parsePatternTyped(pattern, ty) ==
  IF ty.fail
  THEN NullPattern(ty.P)
  ELSE [ok |-> TRUE,
        pat |-> TypedPattern(ty.P.next, pattern.pat, ty.type),
        P |-> alloc(ty.P)]

\* parsePattern after the pattern atom was parsed.
parsePatternAnnotation(pattern) ==
  IF ~pattern.ok
  THEN NullPattern(pattern.P)
  ELSE IF Tok(pattern.P) = "colon"
       THEN parsePatternTyped(pattern, parseTypeAnnotation(consumeToken(pattern.P)))
       ELSE pattern

parsePattern(P) == parsePatternAnnotation(parsePatternAtom(P))

isStartOfPattern(tok) == Kind(tok) = "identifier" \/ Kind(tok) = "l_paren"

\* The NullablePtr<Pattern> a tuple parse returns.
NullablePtr(t) == [ok |-> t.ok, pat |-> t.pat, P |-> t.P]

parsePatternAtom(P) ==
  CASE Tok(P) = "l_paren" -> NullablePtr(parsePatternTuple(P, FALSE))
    [] Tok(P) = "identifier" -> parsePatternIdentifier(P)
    [] Tok(P) = "kw" ->
         NullPattern(consumeToken(diagnose(P, P.pos, "expected_pattern_is_keyword")))
    [] OTHER -> NullPattern(diagnose(P, P.pos, "expected_pattern"))

\* parsePatternTupleElementEllipsis, storing the initializer whatever
\* allowInitExpr says.
parsePatternTupleElementEllipsis_KeepsInit(pattern, allowInitExpr, initR) ==
  LET init == IF initR.ok THEN initR.expr ELSE Null
      P3 == initR.P
      res == TuplePatternElt(pattern, init, Null)
  IN IF Tok(P3) # "ellipsis"
     THEN [ok |-> TRUE, elt |-> res, P |-> P3]
     ELSE IF init # Null
     THEN [ok |-> TRUE, elt |-> res,
           P |-> consumeToken(diagnose(P3, P3.pos, "tuple_ellipsis_init"))]
     ELSE IF pattern.kind # "Typed"
     THEN [ok |-> TRUE, elt |-> res,
           P |-> diagnose(consumeToken(P3), P3.pos, "untyped_pattern_ellipsis")]
     ELSE [ok |-> TRUE,
           elt |-> TuplePatternElt(
                     [pattern EXCEPT !.type = ArraySliceType(pattern.type)],
                     init, pattern.type),
           P |-> consumeToken(P3)]

\* parsePatternTupleElementEllipsis, leaving the ellipsis in the stream when
\* the element has an initializer.
parsePatternTupleElementEllipsis_LeavesEllipsis(pattern, allowInitExpr, initR) ==
  LET init == IF allowInitExpr /\ initR.ok THEN initR.expr ELSE Null
      P3 == initR.P
      res == TuplePatternElt(pattern, init, Null)
  IN IF Tok(P3) # "ellipsis"
     THEN [ok |-> TRUE, elt |-> res, P |-> P3]
     ELSE IF init # Null
     THEN [ok |-> TRUE, elt |-> res,
           P |-> diagnose(P3, P3.pos, "tuple_ellipsis_init")]
     ELSE IF pattern.kind # "Typed"
     THEN [ok |-> TRUE, elt |-> res,
           P |-> diagnose(consumeToken(P3), P3.pos, "untyped_pattern_ellipsis")]
     ELSE [ok |-> TRUE,
           elt |-> TuplePatternElt(
                     [pattern EXCEPT !.type = ArraySliceType(pattern.type)],
                     init, pattern.type),
           P |-> consumeToken(P3)]

\* parsePatternTupleElement after the optional initializer: pattern is the
\* parsed pattern, initR what parseExpr returned (not ok without an '=').
parsePatternTupleElementEllipsis(pattern, allowInitExpr, initR) ==
  LET init == IF allowInitExpr /\ initR.ok THEN initR.expr ELSE Null
      P3 == initR.P
      res == TuplePatternElt(pattern, init, Null)
  IN IF Tok(P3) # "ellipsis"
     THEN [ok |-> TRUE, elt |-> res, P |-> P3]
     ELSE IF init # Null
     THEN [ok |-> TRUE, elt |-> res,
           P |-> consumeToken(diagnose(P3, P3.pos, "tuple_ellipsis_init"))]
     ELSE IF pattern.kind # "Typed"
     THEN [ok |-> TRUE, elt |-> res,
           P |-> diagnose(consumeToken(P3), P3.pos, "untyped_pattern_ellipsis")]
     ELSE [ok |-> TRUE,
           elt |-> TuplePatternElt(
                     [pattern EXCEPT !.type = ArraySliceType(pattern.type)],
                     init, pattern.type),
           P |-> consumeToken(P3)]

\* parsePatternTupleElement after the pattern was parsed.
parsePatternTupleElementInit(pattern, allowInitExpr) ==
  IF ~pattern.ok
  THEN [ok |-> FALSE, elt |-> Null, P |-> pattern.P]
  ELSE IF Tok(pattern.P) = "equal"
       THEN parsePatternTupleElementEllipsis(pattern.pat, allowInitExpr,
              parseExpr(IF allowInitExpr
                        THEN consumeToken(pattern.P)
                        ELSE diagnose(consumeToken(pattern.P), pattern.P.pos,
                                      "non_func_decl_pattern_init"),
                        "expected_initializer_expr"))
       ELSE parsePatternTupleElementEllipsis(pattern.pat, allowInitExpr,
              [ok |-> FALSE, expr |-> Null, P |-> pattern.P])

parsePatternTupleElement(P, allowInitExpr) ==
  parsePatternTupleElementInit(parsePattern(P), allowInitExpr)

\* parsePatternTupleAdd without the check of the previous element.
parsePatternTupleAdd_KeepsVararg(elts, elt) ==
  IF ~elt.ok
  THEN [fail |-> TRUE, elts |-> elts, P |-> elt.P]
  ELSE [fail |-> FALSE, elts |-> Append(elts, elt.elt), P |-> elt.P]

\* The callback of parsePatternTuple after the element was parsed.
parsePatternTupleAdd(elts, elt) ==
  IF ~elt.ok
  THEN [fail |-> TRUE, elts |-> elts, P |-> elt.P]
  ELSE IF elts # <<>> /\ isVararg(elts[Len(elts)])
       THEN [fail |-> FALSE,
             elts |-> Append([elts EXCEPT ![Len(elts)] = revertToNonVariadic(@)],
                             elt.elt),
             P |-> diagnose(elt.P, getLoc(elts[Len(elts)].pattern),
                            "ellipsis_pattern_not_at_end")]
       ELSE [fail |-> FALSE, elts |-> Append(elts, elt.elt), P |-> elt.P]

parsePatternTupleCallback(P, elts, AllowInitExpr) ==
  parsePatternTupleAdd(elts, parsePatternTupleElement(P, AllowInitExpr))

\* parseList after the callback returned c.
parseListSeparator(c, AllowInitExpr) ==
  CASE c.fail ->
         [Invalid |-> TRUE, elts |-> c.elts, RPLoc |-> 0, P |-> c.P]
    [] ~c.fail /\ Tok(c.P) = "comma" ->
         parseList(consumeToken(c.P), c.elts, AllowInitExpr)
    [] ~c.fail /\ Tok(c.P) = "r_paren" ->
         [Invalid |-> FALSE, elts |-> c.elts, RPLoc |-> c.P.pos,
          P |-> consumeToken(c.P)]
    [] OTHER ->
         [Invalid |-> TRUE, elts |-> c.elts, RPLoc |-> 0,
          P |-> diagnose(c.P, c.P.pos, "expected_rparen_tuple_pattern_list")]

parseList(P, elts, AllowInitExpr) ==
  IF elts = <<>> /\ Tok(P) = "r_paren"
  THEN [Invalid |-> FALSE, elts |-> elts, RPLoc |-> P.pos, P |-> consumeToken(P)]
  ELSE parseListSeparator(parsePatternTupleCallback(P, elts, AllowInitExpr),
                          AllowInitExpr)

\* parsePatternTupleClose, collapsing a single element whatever its name.
parsePatternTupleClose_IgnoresName(LPLoc, l) ==
  IF l.Invalid
  THEN [ok |-> FALSE, pat |-> Null, elts |-> l.elts, P |-> l.P]
  ELSE IF /\ Len(l.elts) = 1
          /\ l.elts[1].init = Null
          /\ ~isVararg(l.elts[1])
       THEN [ok |-> TRUE,
             pat |-> ParenPattern(l.P.next, LPLoc, l.elts[1].pattern, l.RPLoc),
             elts |-> l.elts, P |-> alloc(l.P)]
       ELSE [ok |-> TRUE,
             pat |-> TuplePattern(l.P.next, LPLoc, l.elts, l.RPLoc),
             elts |-> l.elts, P |-> alloc(l.P)]

\* parsePatternTupleClose, returning the single anonymous element's pattern
\* itself, without a Paren around it.
parsePatternTupleClose_NoParen(LPLoc, l) ==
  IF l.Invalid
  THEN [ok |-> FALSE, pat |-> Null, elts |-> l.elts, P |-> l.P]
  ELSE IF /\ Len(l.elts) = 1
          /\ l.elts[1].init = Null
          /\ getBoundName(l.elts[1].pattern) = ""
          /\ ~isVararg(l.elts[1])
       THEN [ok |-> TRUE, pat |-> l.elts[1].pattern, elts |-> l.elts, P |-> l.P]
       ELSE [ok |-> TRUE,
             pat |-> TuplePattern(l.P.next, LPLoc, l.elts, l.RPLoc),
             elts |-> l.elts, P |-> alloc(l.P)]

\* parsePatternTuple after the list was parsed: l is what parseList returned.
\* The result also holds elts, the elements parsed.
parsePatternTupleClose(LPLoc, l) ==
  IF l.Invalid
  THEN [ok |-> FALSE, pat |-> Null, elts |-> l.elts, P |-> l.P]
  ELSE IF /\ Len(l.elts) = 1
          /\ l.elts[1].init = Null
          /\ getBoundName(l.elts[1].pattern) = ""
          /\ ~isVararg(l.elts[1])
       THEN [ok |-> TRUE,
             pat |-> ParenPattern(l.P.next, LPLoc, l.elts[1].pattern, l.RPLoc),
             elts |-> l.elts, P |-> alloc(l.P)]
       ELSE [ok |-> TRUE,
             pat |-> TuplePattern(l.P.next, LPLoc, l.elts, l.RPLoc),
             elts |-> l.elts, P |-> alloc(l.P)]

parsePatternTuple(P, AllowInitExpr) ==
  parsePatternTupleClose(P.pos, parseList(consumeToken(P), <<>>, AllowInitExpr))

\* --------------------------------------------------- function arguments
RECURSIVE parseCurriedFunctionArguments(_, _, _)

\* parseCurriedClause, pushing the clause on the argument list only.
parseCurriedClause_ArgOnly(pattern, argP, bodyP) ==
  IF ~pattern.ok
  THEN [err |-> TRUE, argP |-> argP, bodyP |-> bodyP, P |-> pattern.P]
  ELSE parseCurriedFunctionArguments(pattern.P, Append(argP, pattern.pat), bodyP)

\* One turn of the loop of parseCurriedFunctionArguments, after the clause.
parseCurriedClause(pattern, argP, bodyP) ==
  IF ~pattern.ok
  THEN [err |-> TRUE, argP |-> argP, bodyP |-> bodyP, P |-> pattern.P]
  ELSE parseCurriedFunctionArguments(pattern.P, Append(argP, pattern.pat),
                                     Append(bodyP, pattern.pat))

parseCurriedFunctionArguments(P, argP, bodyP) ==
  IF Tok(P) = "l_paren"
  THEN parseCurriedClause(parsePatternTuple(P, TRUE), argP, bodyP)
  ELSE [err |-> FALSE, argP |-> argP, bodyP |-> bodyP, P |-> P]

diagnoseRedefinition(P, prev, decl) ==
  diagnose(diagnose(P, decl.loc, "decl_redefinition"), prev.loc, "previous_decldef")

\* What parseSelectorArgument works on and leaves behind: its return value
\* (err), its reference parameters and the parser.
SelectorState(err, argElts, bodyElts, selectorNames, rp, P) ==
  [err |-> err, argElts |-> argElts, bodyElts |-> bodyElts,
   selectorNames |-> selectorNames, rp |-> rp, P |-> P]

SelectorFail(S, P) == [S EXCEPT !.err = TRUE, !.P = P]

\* parseSelectorClose, going on without initializer when the expression
\* parser failed.
parseSelectorClose_IgnoresExprFailure(argPattern, bodyPattern, initR, S) ==
  CASE Tok(initR.P) = "comma" ->
         SelectorFail(S, skipUntil(diagnose(initR.P, initR.P.pos,
                                     "func_selector_with_not_one_argument"),
                                   "r_paren"))
    [] Tok(initR.P) \notin {"comma", "r_paren"} ->
         SelectorFail(S, diagnose(initR.P, initR.P.pos,
                                  "expected_rparen_tuple_pattern_list"))
    [] OTHER ->
         [S EXCEPT !.rp = initR.P.pos,
                   !.argElts = Append(@, TuplePatternElt(argPattern, initR.expr, Null)),
                   !.bodyElts = Append(@, TuplePatternElt(bodyPattern, initR.expr, Null)),
                   !.P = consumeToken(initR.P)]

\* parseSelectorArgument from the ',' check on.
parseSelectorClose(argPattern, bodyPattern, initR, S) ==
  IF ~initR.ok
  THEN SelectorFail(S, skipUntil(initR.P, "r_paren"))
  ELSE CASE Tok(initR.P) = "comma" ->
              SelectorFail(S, skipUntil(diagnose(initR.P, initR.P.pos,
                                          "func_selector_with_not_one_argument"),
                                        "r_paren"))
         [] Tok(initR.P) \notin {"comma", "r_paren"} ->
              SelectorFail(S, diagnose(initR.P, initR.P.pos,
                                       "expected_rparen_tuple_pattern_list"))
         [] OTHER ->
              [S EXCEPT !.rp = initR.P.pos,
                        !.argElts = Append(@, TuplePatternElt(argPattern, initR.expr, Null)),
                        !.bodyElts = Append(@, TuplePatternElt(bodyPattern, initR.expr, Null)),
                        !.P = consumeToken(initR.P)]

\* parseSelectorArgument from the '=' check on.
parseSelectorInit(argPattern, bodyPattern, S) ==
  IF Tok(S.P) = "equal"
  THEN parseSelectorClose(argPattern, bodyPattern,
                          parseExpr(consumeToken(S.P), "expected_initializer_expr"), S)
  ELSE parseSelectorClose(argPattern, bodyPattern,
                          [ok |-> TRUE, expr |-> Null, P |-> S.P], S)

\* parseSelectorArgument after the type annotation was parsed.
parseSelectorTyped(argPattern, bodyPattern, ty, S) ==
  IF ty.fail
  THEN SelectorFail(S, skipUntil(ty.P, "r_paren"))
  ELSE parseSelectorInit(TypedPattern(ty.P.next, argPattern, ty.type),
                         TypedPattern(ty.P.next + 1, bodyPattern, ty.type),
                         [S EXCEPT !.P = alloc(alloc(ty.P))])

\* parseSelectorArgument after the body pattern atom was parsed.
parseSelectorType(argPattern, bodyPattern, S) ==
  IF ~bodyPattern.ok
  THEN SelectorFail(S, skipUntil(bodyPattern.P, "r_paren"))
  ELSE IF Tok(bodyPattern.P) = "colon"
       THEN parseSelectorTyped(argPattern, bodyPattern.pat,
                               parseTypeAnnotation(consumeToken(bodyPattern.P)), S)
       ELSE parseSelectorInit(argPattern, bodyPattern.pat,
                              [S EXCEPT !.P = bodyPattern.P])

\* parseSelectorArgument from the '(' check on.
parseSelectorParen(argPattern, S) ==
  IF Tok(S.P) # "l_paren"
  THEN SelectorFail(S, diagnose(S.P, S.P.pos, "func_selector_without_paren"))
  ELSE IF Tok(consumeToken(S.P)) = "r_paren"
       THEN SelectorFail(S, diagnose(consumeToken(S.P), S.P.pos + 1,
                                     "func_selector_with_not_one_argument"))
       ELSE parseSelectorType(argPattern, parsePatternAtom(consumeToken(S.P)), S)

\* parseSelectorName, failing on a repeated selector name.
parseSelectorName_FatalRedefinition(argPattern, S) ==
  IF ~argPattern.ok
  THEN SelectorFail(S, [argPattern.P EXCEPT
                          !.trap = "selector argument did not start with an identifier!"])
  ELSE IF argPattern.pat.kind # "Named"
  THEN parseSelectorParen(argPattern.pat, [S EXCEPT !.P = argPattern.P])
  ELSE IF argPattern.pat.decl.name \in DOMAIN S.selectorNames
  THEN SelectorFail(S, diagnoseRedefinition(argPattern.P,
                         S.selectorNames[argPattern.pat.decl.name],
                         argPattern.pat.decl))
  ELSE parseSelectorParen(argPattern.pat,
         [S EXCEPT !.P = argPattern.P,
                   !.selectorNames = (argPattern.pat.decl.name :> argPattern.pat.decl) @@ @])

\* parseSelectorArgument after the selector name was parsed.
parseSelectorName(argPattern, S) ==
  IF ~argPattern.ok
  THEN SelectorFail(S, [argPattern.P EXCEPT
                          !.trap = "selector argument did not start with an identifier!"])
  ELSE IF argPattern.pat.kind # "Named"
  THEN parseSelectorParen(argPattern.pat, [S EXCEPT !.P = argPattern.P])
  ELSE IF argPattern.pat.decl.name \in DOMAIN S.selectorNames
  THEN parseSelectorParen(argPattern.pat,
         [S EXCEPT !.P = diagnoseRedefinition(argPattern.P,
                           S.selectorNames[argPattern.pat.decl.name],
                           argPattern.pat.decl)])
  ELSE parseSelectorParen(argPattern.pat,
         [S EXCEPT !.P = argPattern.P,
                   !.selectorNames = (argPattern.pat.decl.name :> argPattern.pat.decl) @@ @])

parseSelectorArgument(P, argElts, bodyElts, selectorNames, rp) ==
  parseSelectorName(parsePatternIdentifier(P),
                    SelectorState(FALSE, argElts, bodyElts, selectorNames, rp, P))

\* getFirstSelectorPattern, never typed.
getFirstSelectorPattern_Untyped(P, argPattern, loc) ==
  [pat |-> AnyPattern(P.next, loc), P |-> alloc(P)]

getFirstSelectorPattern(P, argPattern, loc) ==
  IF argPattern.kind = "Typed"
  THEN [pat |-> TypedPattern(P.next + 1, AnyPattern(P.next, loc), argPattern.type),
        P |-> alloc(alloc(P))]
  ELSE [pat |-> AnyPattern(P.next, loc), P |-> alloc(P)]

RECURSIVE parseSelectors(_)

\* The loop of parseSelectorFunctionArguments after a selector was parsed.
parseSelectorsNext(S) == IF S.err THEN S ELSE parseSelectors(S)

\* The loop of parseSelectorFunctionArguments.
parseSelectors(S) ==
  CASE Tok(S.P) = "identifier" ->
         parseSelectorsNext(parseSelectorArgument(S.P, S.argElts, S.bodyElts,
                                                  S.selectorNames, S.rp))
    [] Tok(S.P) = "l_paren" ->
         SelectorFail(S, diagnose(S.P, S.P.pos, "func_selector_with_curry"))
    [] OTHER -> S

\* parseSelectorFunctionArguments after its loop.
parseSelectorTuples(argP, bodyP, lp, S) ==
  IF S.err
  THEN [err |-> TRUE, argP |-> argP, bodyP |-> bodyP, P |-> S.P]
  ELSE [err |-> FALSE,
        argP |-> Append(argP, TuplePattern(S.P.next, lp, S.argElts, S.rp)),
        bodyP |-> Append(bodyP, TuplePattern(S.P.next + 1, lp, S.bodyElts, S.rp)),
        P |-> alloc(alloc(S.P))]

\* parseSelectorFunctionArguments once the first pair of elements is made:
\* first is what getFirstSelectorPattern returned, bodyElt the body element.
parseSelectorRest(argP, bodyP, lp, first, bodyElt) ==
  parseSelectorTuples(argP, bodyP, lp,
    parseSelectors(SelectorState(FALSE,
      <<TuplePatternElt(first.pat, bodyElt.init, bodyElt.varargBaseType)>>,
      <<bodyElt>>, <<>>, 0, first.P)))

parseSelectorFunctionArguments(P, argP, bodyP, firstPattern) ==
  CASE firstPattern.kind = "Paren" ->
         parseSelectorRest(argP, bodyP, firstPattern.lp,
           getFirstSelectorPattern(P, firstPattern.sub, getLoc(firstPattern)),
           TuplePatternElt(firstPattern.sub, Null, Null))
    [] firstPattern.kind = "Tuple" ->
         IF Len(firstPattern.elts) # 1
         THEN [err |-> TRUE, argP |-> argP, bodyP |-> bodyP,
               P |-> diagnose(P, P.pos, "func_selector_with_not_one_argument")]
         ELSE parseSelectorRest(argP, bodyP, 0,
                getFirstSelectorPattern(P, firstPattern.elts[1].pattern,
                                        getLoc(firstPattern)),
                firstPattern.elts[1])
    [] OTHER ->
         [err |-> TRUE, argP |-> argP, bodyP |-> bodyP,
          P |-> [P EXCEPT !.trap = "unexpected function argument pattern!"]]

\* parseFunctionArguments after the first clause was parsed.
parseFunctionArgumentsRest(pattern, argPatterns, bodyPatterns) ==
  IF ~pattern.ok
  THEN [err |-> TRUE, argP |-> argPatterns, bodyP |-> bodyPatterns, P |-> pattern.P]
  ELSE IF Tok(pattern.P) = "identifier"
       THEN parseSelectorFunctionArguments(pattern.P, argPatterns, bodyPatterns,
                                           pattern.pat)
       ELSE parseCurriedFunctionArguments(pattern.P,
                                          Append(argPatterns, pattern.pat),
                                          Append(bodyPatterns, pattern.pat))

parseFunctionArguments(P, argPatterns, bodyPatterns) ==
  parseFunctionArgumentsRest(parsePatternTuple(P, TRUE), argPatterns, bodyPatterns)

\* parseFunctionSignature after the result type was parsed.
parseFunctionSignatureType(a, ty) ==
  [err |-> ty.fail, argP |-> a.argP, bodyP |-> a.bodyP, retType |-> ty.type, P |-> ty.P]

\* parseFunctionSignature after the arguments were parsed.
parseFunctionSignatureResult(a) ==
  IF a.err
  THEN [err |-> TRUE, argP |-> a.argP, bodyP |-> a.bodyP, retType |-> Null, P |-> a.P]
  ELSE IF Tok(a.P) = "arrow"
       THEN parseFunctionSignatureType(a, parseType(consumeToken(a.P)))
       ELSE [err |-> FALSE, argP |-> a.argP, bodyP |-> a.bodyP, retType |-> Null,
             P |-> a.P]

parseFunctionSignature(P, argPatterns, bodyPatterns) ==
  parseFunctionSignatureResult(parseFunctionArguments(P, argPatterns, bodyPatterns))

\* ------------------------------------------------------ token streams
(* The token cursor hands the parser one token at a time.  A stream is     *)
(* extended only while the routine under test, run on the tokens so far,   *)
(* has read up to the end of the stream: once it has failed on a token of  *)
(* the stream, or returned before the end, later tokens are never looked   *)
(* at and change nothing.                                                  *)
Run(e, ts) ==
  CASE e = "element" -> parsePatternTupleElement(Parser(ts), TRUE)
    [] e = "tuple" -> parsePatternTuple(Parser(ts), TRUE)
    [] OTHER -> parseFunctionSignature(Parser(ts), <<>>, <<>>)

Failed(e, r) == IF e \in {"element", "tuple"} THEN ~r.ok ELSE r.err

ReadsOn(e, ts, r) ==
  /\ r.P.pos > Len(ts)
  /\ Failed(e, r) =>
       (r.P.diags # <<>> /\ r.P.diags[Len(r.P.diags)].loc > Len(ts))

RECURSIVE Open(_)
Open(ts) ==
  IF ts = <<>> THEN 0
  ELSE Open(SubSeq(ts, 1, Len(ts) - 1))
       + (CASE ts[Len(ts)] = "(" -> 1 [] ts[Len(ts)] = ")" -> -1 [] OTHER -> 0)

MaxLen(e) ==
  CASE e = "element" -> MaxLenElt
    [] e = "tuple" -> MaxLenTuple
    [] e = "arguments" -> MaxLenArgs
    [] OTHER -> MaxLenSel

Depth(e) == IF e = "selectors" THEN MaxDepthSel ELSE MaxDepth

Alphabet(e) == IF e = "selectors" THEN SelectorTokens ELSE Tokens

Lex ==
  /\ pc = "lexing"
  /\ Len(toks) < MaxLen(entry)
  /\ ReadsOn(entry, toks, Run(entry, toks))
  /\ \E t \in Alphabet(entry) :
       /\ t = "(" => Open(toks) < Depth(entry)
       /\ toks' = Append(toks, t)
  /\ UNCHANGED <<entry, pc, result>>

\* ---------------------------------------------------------- operations
ParsePatternTupleElement ==
  /\ pc = "lexing"
  /\ entry = "element"
  /\ \E allowInitExpr \in BOOLEAN :
       result' = [op |-> "parsePatternTupleElement", allowInitExpr |-> allowInitExpr,
                  r |-> parsePatternTupleElement(Parser(toks), allowInitExpr)]
  /\ pc' = "done"
  /\ UNCHANGED <<toks, entry>>

ParsePatternTuple ==
  /\ pc = "lexing"
  /\ entry = "tuple"
  /\ \E AllowInitExpr \in BOOLEAN :
       result' = [op |-> "parsePatternTuple", allowInitExpr |-> AllowInitExpr,
                  r |-> parsePatternTuple(Parser(toks), AllowInitExpr)]
  /\ pc' = "done"
  /\ UNCHANGED <<toks, entry>>

ParseFunctionArguments ==
  /\ pc = "lexing"
  /\ entry \in {"arguments", "selectors"}
  /\ result' = [op |-> "parseFunctionArguments", allowInitExpr |-> TRUE,
                r |-> parseFunctionArguments(Parser(toks), <<>>, <<>>)]
  /\ pc' = "done"
  /\ UNCHANGED <<toks, entry>>

ParseFunctionSignature ==
  /\ pc = "lexing"
  /\ entry = "arguments"
  /\ result' = [op |-> "parseFunctionSignature", allowInitExpr |-> TRUE,
                r |-> parseFunctionSignature(Parser(toks), <<>>, <<>>)]
  /\ pc' = "done"
  /\ UNCHANGED <<toks, entry>>

\* ------------------------------------------------------ specifications
InitElt == toks = <<>> /\ entry = "element" /\ pc = "lexing" /\ result = Null

InitTuple == toks = <<"(">> /\ entry = "tuple" /\ pc = "lexing" /\ result = Null

InitSel == toks = <<"(">> /\ entry = "selectors" /\ pc = "lexing" /\ result = Null

Init == toks = <<"(">> /\ entry = "arguments" /\ pc = "lexing" /\ result = Null

NextElt == Lex \/ ParsePatternTupleElement

NextTuple == Lex \/ ParsePatternTuple

NextSel == Lex \/ ParseFunctionArguments

Next == Lex \/ ParseFunctionArguments \/ ParseFunctionSignature

SpecElt == InitElt /\ [][NextElt]_vars

SpecTuple == InitTuple /\ [][NextTuple]_vars

SpecSel == InitSel /\ [][NextSel]_vars

Spec == Init /\ [][Next]_vars

\* ------------------------------------------------- reading the results
Done(op) == pc = "done" /\ result.op = op

Diagnosed(P, kind, loc) == \E i \in 1..Len(P.diags) : P.diags[i] = [loc |-> loc, kind |-> kind]

DiagnosedKind(P, kind) == \E i \in 1..Len(P.diags) : P.diags[i].kind = kind

\* The Tuple nodes of the tree under pattern p.
RECURSIVE TuplesOf(_)
TuplesOf(p) ==
  CASE p.kind = "Tuple" ->
         {p} \cup UNION {TuplesOf(p.elts[i].pattern) : i \in 1..Len(p.elts)}
    [] p.kind \in {"Typed", "Paren"} -> TuplesOf(p.sub)
    [] OTHER -> {}

\* The identities of the pattern nodes of the tree under pattern p.
RECURSIVE IdsOf(_)
IdsOf(p) ==
  CASE p.kind = "Tuple" ->
         {p.id} \cup UNION {IdsOf(p.elts[i].pattern) : i \in 1..Len(p.elts)}
    [] p.kind \in {"Typed", "Paren"} -> {p.id} \cup IdsOf(p.sub)
    [] OTHER -> {p.id}

\* The index of the last token of pattern p in the stream.
PatEnd(p) ==
  CASE p.kind = "Any" -> p.loc
    [] p.kind = "Named" -> p.decl.loc
    [] p.kind = "Typed" -> p.type.loc
    [] OTHER -> p.rp

\* In the stream, '=' follows the pattern of elt, and the expression parser
\* parsed the expression after it.
ExprParsed(P, elt) ==
  /\ PatEnd(elt.pattern) + 1 <= Len(P.toks)
  /\ P.toks[PatEnd(elt.pattern) + 1] = "="
  /\ ~Diagnosed(P, "expected_initializer_expr", PatEnd(elt.pattern) + 2)

VarargLast(t) == \A i \in 1..(Len(t.elts) - 1) : ~isVararg(t.elts[i])

NotSlice(p) == p.kind = "Typed" => ~p.type.slice

\* Element i of tuple t, not the last, was written with a '...' that marked
\* it variadic: the token before the ',' that ends it is the ellipsis.
MarkedVararg(P, t, i) ==
  /\ P.toks[getLoc(t.elts[i + 1].pattern) - 2] = "..."
  /\ t.elts[i].pattern.kind = "Typed"
  /\ t.elts[i].init = Null

\* The number of ',' directly inside the outermost parentheses of ts.
RECURSIVE TopCommas(_)
TopCommas(ts) ==
  IF ts = <<>> THEN 0
  ELSE TopCommas(SubSeq(ts, 1, Len(ts) - 1))
       + (IF ts[Len(ts)] = "," /\ Open(ts) = 1 THEN 1 ELSE 0)

Consumed(P) == SubSeq(P.toks, 1, P.pos - 1)

\* ------------------------------------------------------------------ C1
\* C1: when parsePatternTuple succeeds, no element of a Tuple it built other
\* than the last is marked vararg (nor keeps the slice type), and an element
\* that had been marked vararg and is followed by a further element is
\* exactly one for which 'ellipsis not at end' was diagnosed at its pattern.
C1_VarargOnlyLast ==
  (Done("parsePatternTuple") /\ result.r.ok) =>
    \A t \in TuplesOf(result.r.pat) :
      \A i \in 1..(Len(t.elts) - 1) :
        /\ ~isVararg(t.elts[i])
        /\ NotSlice(t.elts[i].pattern)
        /\ MarkedVararg(result.r.P, t, i)
             <=> Diagnosed(result.r.P, "ellipsis_pattern_not_at_end",
                           getLoc(t.elts[i].pattern))

\* A tuple of two elements was parsed, the first written as a typed vararg.
C1_Witness ==
  /\ Done("parsePatternTuple") /\ result.r.ok
  /\ result.r.pat.kind = "Tuple" /\ Len(result.r.pat.elts) = 2
  /\ MarkedVararg(result.r.P, result.r.pat, 1)
  /\ DiagnosedKind(result.r.P, "ellipsis_pattern_not_at_end")

\* ------------------------------------------------------------------ C2
SingleAnonymous(elts) ==
  /\ Len(elts) = 1
  /\ elts[1].init = Null
  /\ ~isVararg(elts[1])
  /\ getBoundName(elts[1].pattern) = ""

\* C2: a successful parsePatternTuple returns a Paren around the element's
\* pattern iff the list has exactly one element, without initializer, not
\* vararg and with an empty bound name; otherwise a Tuple of all the parsed
\* elements in order, one per comma-separated item: () is a Tuple of no
\* elements, (a) a Tuple of one, (_) a Paren.
C2_ParenIffSingleAnonymous ==
  (Done("parsePatternTuple") /\ result.r.ok) =>
    /\ result.r.pat.kind = "Paren" <=> SingleAnonymous(result.r.elts)
    /\ result.r.pat.kind = "Paren" => result.r.pat.sub = result.r.elts[1].pattern
    /\ result.r.pat.kind # "Paren" =>
         (result.r.pat.kind = "Tuple" /\ result.r.pat.elts = result.r.elts)
    /\ Len(result.r.elts) =
         IF toks[2] = ")" THEN 0 ELSE TopCommas(Consumed(result.r.P)) + 1
    /\ \A i \in 1..(Len(result.r.elts) - 1) :
         getLoc(result.r.elts[i].pattern) < getLoc(result.r.elts[i + 1].pattern)
    /\ toks = <<"(", ")">> => (result.r.pat.kind = "Tuple" /\ result.r.pat.elts = <<>>)
    /\ toks = <<"(", "a", ")">> =>
         (result.r.pat.kind = "Tuple" /\ Len(result.r.pat.elts) = 1)
    /\ toks = <<"(", "_", ")">> => result.r.pat.kind = "Paren"

\* (_ : a) was parsed to a Paren.
C2_Witness ==
  /\ Done("parsePatternTuple") /\ result.r.ok
  /\ toks = <<"(", "_", ":", "a", ")">>
  /\ result.r.pat.kind = "Paren"

ForbiddenInitElts ==
  {e \in UNION {{t.elts[i] : i \in 1..Len(t.elts)} :
                t \in UNION {TuplesOf(result.r.elts[i].pattern) :
                             i \in 1..Len(result.r.elts)}} : TRUE}
  \cup (IF result.allowInitExpr THEN {}
        ELSE {result.r.elts[i] : i \in 1..Len(result.r.elts)})

InitAndEllipsis(P, elt) ==
  /\ ExprParsed(P, elt)
  /\ PatEnd(elt.pattern) + 3 <= Len(P.toks)
  /\ P.toks[PatEnd(elt.pattern) + 3] = "..."

DiagnosedAt(P, loc) == \E i \in 1..Len(P.diags) : P.diags[i].loc = loc

Prefix(ts, k) == SubSeq(ts, 1, k)

\* The indexes at which a parenthesized clause of ts ends.
ClauseEnds(ts) == {k \in 1..Len(ts) : ts[k] = ")" /\ Open(Prefix(ts, k)) = 0}

\* The index of the ')' that ends the first clause (0 if it does not end).
FirstClose(ts) ==
  IF ClauseEnds(ts) = {} THEN 0
  ELSE CHOOSE k \in ClauseEnds(ts) : \A j \in ClauseEnds(ts) : k <= j

TokenAt(ts, k) == IF k \in 1..Len(ts) THEN ts[k] ELSE ""

\* The token after the first clause is an identifier: the selector branch.
SelectorBranch(ts) ==
  FirstClose(ts) # 0 /\ Kind(TokenAt(ts, FirstClose(ts) + 1)) = "identifier"

CurriedBranch(ts) ==
  FirstClose(ts) # 0 /\ Kind(TokenAt(ts, FirstClose(ts) + 1)) # "identifier"

LastDiag(P) == P.diags[Len(P.diags)]

\* ------------------------------------------------------------------ C3
RedefinitionDiagnosed(P) == DiagnosedKind(P, "decl_redefinition")

\* ( x ) y ( x )  or  ( x : T ) y ( x : T ): the selector clause binds the
\* name the first clause binds.
RepeatsFirstName(ts) ==
  \E x \in Identifiers \ {"_"}, y \in Identifiers \ {"_"} :
    \/ ts = <<"(", x, ")", y, "(", x, ")">>
    \/ \E T \in Identifiers : ts = <<"(", x, ":", T, ")", y, "(", x, ":", T, ")">>

\* C3 as claimed: in f(a: Int) to(a: Int) the second a is diagnosed as a
\* redefinition, the parse succeeds and the body tuple has two elements.
C3_InnerNameRedefinition ==
  (Done("parseFunctionArguments") /\ RepeatsFirstName(toks)) =>
    /\ RedefinitionDiagnosed(result.r.P)
    /\ ~result.r.err
    /\ Len(result.r.bodyP[1].elts) = 2

\* C3 amended: the names checked are the selector names, the identifiers
\* before the '(' of the selector clauses.  A selector clause is diagnosed
\* as a redefinition at its name exactly when an earlier selector clause of
\* the signature has the same name; the names bound inside the clauses, the
\* first clause's among them, are not checked.  The diagnostic is never the
\* reason of a failure, and on success the argument and the body tuple hold
\* one element per clause.
C3_SelectorNameRedefinition ==
  Done("parseFunctionArguments") =>
    /\ (~result.r.err /\ SelectorBranch(toks)) =>
         /\ Len(result.r.argP) = 1 /\ Len(result.r.bodyP) = 1
         /\ Len(result.r.argP[1].elts) = Cardinality(ClauseEnds(Consumed(result.r.P)))
         /\ Len(result.r.bodyP[1].elts) = Len(result.r.argP[1].elts)
         /\ \A i \in 2..Len(result.r.argP[1].elts) :
              (/\ getBoundName(result.r.argP[1].elts[i].pattern) # ""
               /\ \E j \in 2..(i - 1) :
                    getBoundName(result.r.argP[1].elts[j].pattern)
                      = getBoundName(result.r.argP[1].elts[i].pattern))
              <=> Diagnosed(result.r.P, "decl_redefinition",
                            getLoc(result.r.argP[1].elts[i].pattern))
    /\ (result.r.err /\ result.r.P.diags # <<>>) =>
         LastDiag(result.r.P).kind \notin {"decl_redefinition", "previous_decldef"}
    /\ RepeatsFirstName(toks) =>
         (~result.r.err /\ ~RedefinitionDiagnosed(result.r.P)
            /\ Len(result.r.bodyP[1].elts) = 2)

\* A signature of three clauses whose two selector names are the same.
C3_Witness ==
  /\ Done("parseFunctionArguments") /\ ~result.r.err
  /\ RedefinitionDiagnosed(result.r.P)
  /\ Len(result.r.bodyP[1].elts) = 3

\* ------------------------------------------------------------------ C4
\* What parsePatternTuple makes of the first clause of the stream.
FirstClause == parsePatternTuple(Parser(toks), TRUE).pat

FirstClausePattern ==
  IF FirstClause.kind = "Paren" THEN FirstClause.sub ELSE FirstClause.elts[1].pattern

\* C4: after a successful selector-style parse the first argument element
\* is a fresh anonymous pattern, Any or, exactly when the first clause's
\* pattern is Typed, Typed(Any) with that type; the first body element is
\* the first clause's own pattern, name and all.
C4_FirstSelectorPattern ==
  (Done("parseFunctionArguments") /\ ~result.r.err /\ SelectorBranch(toks)) =>
    LET arg == result.r.argP[1].elts[1].pattern
        body == result.r.bodyP[1].elts[1].pattern
    IN /\ body = FirstClausePattern
       /\ getLoc(body) = 2
       /\ Kind(toks[2]) = "identifier" => getBoundName(body) = (IF toks[2] = "_" THEN "" ELSE toks[2])
       /\ arg.kind = "Typed" <=> body.kind = "Typed"
       /\ arg.kind = "Typed" => (arg.sub.kind = "Any" /\ arg.type = body.type)
       /\ arg.kind # "Typed" => arg.kind = "Any"
       /\ IdsOf(arg) \cap IdsOf(result.r.bodyP[1]) = {}
       /\ getBoundName(arg) = ""

\* ( a : b ) b ( _ ): a typed, named first clause.
C4_Witness ==
  /\ Done("parseFunctionArguments") /\ ~result.r.err /\ SelectorBranch(toks)
  /\ result.r.bodyP[1].elts[1].pattern.kind = "Typed"
  /\ getBoundName(result.r.bodyP[1].elts[1].pattern) = "a"
  /\ result.r.argP[1].elts[1].pattern.kind = "Typed"

\* ------------------------------------------------------------------ C9
\* C9: after a successful parseFunctionArguments no Tuple of the argument
\* or the body list has an element other than its last marked vararg.
C9_VarargLastInSignature ==
  (Done("parseFunctionArguments") /\ ~result.r.err) =>
    /\ \A i \in 1..Len(result.r.argP) :
         \A t \in TuplesOf(result.r.argP[i]) : VarargLast(t)
    /\ \A i \in 1..Len(result.r.bodyP) :
         \A t \in TuplesOf(result.r.bodyP[i]) : VarargLast(t)

\* ------------------------------------------------------------------ C5
\* C5: when parseFunctionArguments takes the curried branch and succeeds,
\* the argument and the body list hold the same patterns, node for node,
\* one per parenthesized clause consumed, in source order.
C5_CurriedSamePatterns ==
  (Done("parseFunctionArguments") /\ ~result.r.err /\ CurriedBranch(toks)) =>
    /\ result.r.argP = result.r.bodyP
    /\ Len(result.r.argP) = Cardinality(ClauseEnds(Consumed(result.r.P)))
    /\ \A i \in 1..Len(result.r.argP) :
         /\ result.r.argP[i].kind \in {"Paren", "Tuple"}
         /\ result.r.argP[i].id = result.r.bodyP[i].id
         /\ result.r.argP[i].rp \in ClauseEnds(toks)
         /\ result.r.argP[i].lp = IF i = 1 THEN 1 ELSE result.r.argP[i - 1].rp + 1

\* Two curried clauses were parsed.
C5_Witness ==
  /\ Done("parseFunctionArguments") /\ ~result.r.err /\ CurriedBranch(toks)
  /\ Len(result.r.argP) = 2
  /\ result.r.argP[2].kind = "Tuple"

\* ------------------------------------------------------------------ C8
\* The expression parser failed at index k, after the '=' of a selector
\* element: the '=' stands right inside the parentheses of a clause after
\* the first, in a signature of the selector branch.
SelectorExprFailure(P, k) ==
  /\ Diagnosed(P, "expected_initializer_expr", k)
  /\ SelectorBranch(P.toks)
  /\ k - 1 > FirstClose(P.toks)
  /\ Open(Prefix(P.toks, k - 1)) = 1

\* The expression parser failed at index k, after the '=' of a tuple element.
TupleExprFailure(P, k) ==
  Diagnosed(P, "expected_initializer_expr", k) /\ ~SelectorExprFailure(P, k)

ExprFailures(P) == {k \in 1..(Len(P.toks) + 1) : Diagnosed(P, "expected_initializer_expr", k)}

\* C8 as claimed: wherever the expression parser fails on a default value,
\* parseFunctionArguments and parseFunctionSignature report failure.
C8_ExprFailureFatal ==
  (Done("parseFunctionArguments") \/ Done("parseFunctionSignature")) =>
    (ExprFailures(result.r.P) # {} => result.r.err)

\* C8 amended: a failure of the expression parser is fatal for a selector
\* element: parseSelectorArgument fails at once, no pattern is produced and
\* parseFunctionArguments and parseFunctionSignature report failure.  For
\* a tuple element it is not: the element is returned without initializer
\* and the parse goes on, so it is never the reason of a failure.
C8_ExprFailureFatalInSelector ==
  (Done("parseFunctionArguments") \/ Done("parseFunctionSignature")) =>
    /\ \A k \in ExprFailures(result.r.P) :
         SelectorExprFailure(result.r.P, k) =>
           /\ result.r.err
           /\ result.r.argP = <<>> /\ result.r.bodyP = <<>>
           /\ LastDiag(result.r.P) = [loc |-> k, kind |-> "expected_initializer_expr"]
    /\ (result.r.err /\ result.r.P.diags # <<>>
          /\ LastDiag(result.r.P).kind = "expected_initializer_expr") =>
         SelectorExprFailure(result.r.P, LastDiag(result.r.P).loc)
    /\ (~result.r.err /\ result.r.argP[1].kind = "Tuple"
          /\ TokenAt(toks, 3) = "=" /\ TupleExprFailure(result.r.P, 4)) =>
         result.r.argP[1].elts[1].init = Null

\* A signature such as ( _ ) a ( _ = ) failed in the selector element, on
\* the token after the '='.
C8_Witness ==
  /\ Done("parseFunctionSignature") /\ result.r.err
  /\ \E k \in 1..Len(toks) : SelectorExprFailure(result.r.P, k)

\* ----------------------------------------------------------------- C10
\* C10: parseFunctionArguments and parseFunctionSignature never hit the
\* 'unexpected function argument pattern' branch nor fail the assertion of
\* parseSelectorArgument; the pattern handed to the selector parser is a
\* Paren or a Tuple, and malformed input ends in a failure with a diagnostic.
C10_NoContractViolation ==
  (Done("parseFunctionArguments") \/ Done("parseFunctionSignature")) =>
    /\ result.r.P.trap = "none"
    /\ SelectorBranch(toks) => FirstClause.kind \in {"Paren", "Tuple"}
    /\ result.r.err => result.r.P.diags # <<>>

\* A selector-style signature failed with a diagnostic and no trap.
C10_Witness ==
  /\ Done("parseFunctionArguments") /\ result.r.err
  /\ SelectorBranch(toks)
  /\ result.r.P.trap = "none"
  /\ DiagnosedKind(result.r.P, "func_selector_without_paren")

====
